---- MODULE Spec2Model ----
(***************************************************************************)
(* Model of the workflow risk engine of gh-workflow-auditor:               *)
(* WorkflowParser, WorkflowRisks and WorkflowAuditor (workflow.py) driven   *)
(* by repo_analysis (console.py) on the workflows that repo_node_parser     *)
(* (gh_wrapper.py) takes from the node of a repository.                    *)
(*                                                                         *)
(* A YAML value is a tagged record: t is "null", "str", "seq" or one of     *)
(* the mapping shapes "doc" (top level), "jobs", "step" (a job or step      *)
(* body), "with", "env"; "int" is a number.  A string is the sequence of its tokens; a token   *)
(* is a plain word or a ${{ a.b.c }} expression kept as its dot-separated   *)
(* segments, so that strip/split and the regular expressions of the scan    *)
(* configuration are computed on the structure.  A trigger field that is a  *)
(* mapping is "triggers", holding its keys in document order.              *)
(***************************************************************************)
EXTENDS Integers, Sequences, FiniteSets, TLC

VARIABLES
    repo_node,       \* the repository node of the GraphQL answer
    pc,              \* run: the call that comes next, or "failed"
    scan_config,     \* WorkflowRisks: the compiled scan configuration
    repo_workflows,  \* repo_analysis: the workflows of the repository, in order
    position,        \* repo_analysis: number of loop iterations started and finished
    aborted,         \* an exception left content_analyzer and ended the loop
    scanned,         \* per finished call: what it logged and wrote
    action_file,     \* the action-reference file, one line per write
    environs,        \* content_analyzer locals as the last call left them
    commands,
    all_actions,
    counter

vars == <<repo_node, pc, scan_config, repo_workflows, position, aborted, scanned, action_file,
          environs, commands, all_actions, counter>>

----------------------------------------------------------------------------
\* Bounds of the model: the workflows of a repository, the jobs of a
\* workflow and the steps of a workflow.
MaxWorkflows == 3
MaxJobs == 2
MaxSteps == 2

----------------------------------------------------------------------------
\* YAML values.
Null == [t |-> "null"]
Str(toks) == [t |-> "str", v |-> toks]
List(items) == [t |-> "seq", items |-> items]
Word(w) == [expr |-> FALSE, segs |-> <<w>>]
Expr(segs) == [expr |-> TRUE, segs |-> segs]
EnvMap(m) == [t |-> "env", m |-> m]
WithMap(ref) == [t |-> "with", ref |-> ref]
Mapping(uses, run, with, env, steps) ==
    [t |-> "step", uses |-> uses, run |-> run, with |-> with, env |-> env,
     steps |-> steps]
JobsMap(items) == [t |-> "jobs", items |-> items]
Document(on, jobs) == [t |-> "doc", on |-> on, jobs |-> jobs]
TriggerMap(keys) == [t |-> "triggers", keys |-> keys]
Name(n) == Str(<<Word(n)>>)
Number == [t |-> "int"]
EmptyDict == [k \in {} |-> Null]

IsMapping(v) == v.t \in {"doc", "jobs", "step", "with", "env"}

\* Python truth value of a YAML value.
Truthy(v) ==
    CASE v.t = "null" -> FALSE
      [] v.t = "str" -> v.v # <<>>
      [] v.t = "seq" -> v.items # <<>>
      [] v.t = "jobs" -> v.items # <<>>
      [] v.t = "env" -> DOMAIN v.m # {}
      [] v.t = "triggers" -> v.keys # <<>>
      [] OTHER -> TRUE

\* dict.update
Update(d, m) ==
    [k \in DOMAIN d \cup DOMAIN m |-> IF k \in DOMAIN m THEN m[k] ELSE d[k]]

----------------------------------------------------------------------------
\* WorkflowParser.

\* The marker __init__ stores when yaml.safe_load raises.
FailedMarker == [t |-> "failed"]

WorkflowParser(yaml_content) ==
    IF yaml_content.yaml.t \in {"invalid", "none"} THEN FailedMarker
    ELSE yaml_content.yaml

\* None when the trigger field is missing or falsy, else a list.
get_event_triggers(parsed_content) ==
    IF Truthy(parsed_content.on)
    THEN CASE parsed_content.on.t = "seq" -> parsed_content.on
           [] parsed_content.on.t = "triggers" -> List(parsed_content.on.keys)
           [] OTHER -> List(<<parsed_content.on>>)
    ELSE Null

get_jobs(parsed_content) == parsed_content.jobs

analyze_step(step) ==
    [actions |-> step.uses, run_command |-> step.run, with_input |-> step.with,
     step_environ |-> step.env]

----------------------------------------------------------------------------
\* WorkflowRisks: the scan configuration.  config/scan.json is not part of
\* the sources; its patterns are modelled from the specification's rule
\* catalog: one Direct unsafe-input rule, the EnvironmentIndirect rule named
\* environ_regex, one malicious-commit rule and the secret pattern.

TitleExpr == Expr(<<"github", "event", "issue", "title">>)
EnvTitle == Expr(<<"env", "TITLE">>)
EnvOther == Expr(<<"env", "OTHER">>)
EnvNoDot == Expr(<<"envTITLE">>)
HeadSha == Expr(<<"github", "event", "pull_request", "head", "sha">>)
SecretToken == Expr(<<"secrets", "TOKEN">>)
SecretKey == Expr(<<"secrets", "KEY">>)

\* Whether the compiled pattern of an unsafe-input rule matches a token.
UnsafeInputPattern(regex, tok) ==
    CASE regex = "issue_title" -> tok = TitleExpr
      [] regex = "environ_regex" ->
            /\ tok.expr
            /\ \/ Len(tok.segs) = 2 /\ tok.segs[1] = "env"
               \/ tok = EnvNoDot
      [] OTHER -> FALSE

MaliciousCommitPattern(regex, tok) ==
    regex = "malicious_commit_referenced" /\ tok = HeadSha

SecretsPattern(tok) == tok.expr /\ tok.segs[1] = "secrets"

\* The orders in which scan.json may list the unsafe-input rules.
UnsafeInputOrders ==
    {<<"issue_title", "environ_regex">>, <<"environ_regex", "issue_title">>}

ScanConfigs ==
    {[risky_events |-> <<Name("pull_request_target"), Name("workflow_run")>>,
      unsafe_inputs |-> o,
      malicious_commits |-> <<"malicious_commit_referenced">>] :
        o \in UnsafeInputOrders}

\* risky_command: for each rule in dictionary order that matches, the rule
\* and its matches (finditer: the matching tokens in text order); a TypeError
\* when the argument is not a string.
RECURSIVE RiskyCommandFrom(_, _, _)
RiskyCommandFrom(cfg, text, i) ==
    IF i > Len(cfg.unsafe_inputs) THEN <<>>
    ELSE LET regex == cfg.unsafe_inputs[i]
             Hit(tok) == UnsafeInputPattern(regex, tok)
             matched_commands == SelectSeq(text, Hit)
             rest == RiskyCommandFrom(cfg, text, i + 1)
         IN IF matched_commands # <<>>
            THEN <<[regex |-> regex, matched |-> matched_commands]>> \o rest
            ELSE rest

risky_command(cfg, command_string) ==
    IF command_string.t # "str"
    THEN [raised |-> "TypeError", found |-> <<>>]
    ELSE [raised |-> "none", found |-> RiskyCommandFrom(cfg, command_string.v, 1)]

risky_trigger(cfg, trigger_name) ==
    \E i \in 1..Len(cfg.risky_events) : cfg.risky_events[i] = trigger_name

RECURSIVE RiskyCommitFrom(_, _, _)
RiskyCommitFrom(cfg, text, i) ==
    IF i > Len(cfg.malicious_commits) THEN <<>>
    ELSE LET regex == cfg.malicious_commits[i]
             Hit(tok) == MaliciousCommitPattern(regex, tok)
             matched_commits == SelectSeq(text, Hit)
             rest == RiskyCommitFrom(cfg, text, i + 1)
         IN IF matched_commits # <<>>
            THEN <<[regex |-> regex, matched |-> matched_commits]>> \o rest
            ELSE rest

risky_commit(cfg, referenced) ==
    IF referenced.t # "str"
    THEN [raised |-> "TypeError", found |-> <<>>]
    ELSE [raised |-> "none", found |-> RiskyCommitFrom(cfg, referenced.v, 1)]

\* get_secrets: the matches of the secret pattern, first occurrences only.
RECURSIVE Dedup(_, _)
Dedup(matches, found_matches) ==
    IF matches = <<>> THEN found_matches
    ELSE Dedup(Tail(matches),
               IF \E i \in 1..Len(found_matches) : found_matches[i] = Head(matches)
               THEN found_matches
               ELSE Append(found_matches, Head(matches)))

get_secrets(full_yaml) == Dedup(SelectSeq(full_yaml, SecretsPattern), <<>>)

----------------------------------------------------------------------------
\* WorkflowAuditor.

\* The coordinate with enumerate's index as the step number.
CoordZeroBased(job, step) == [job |-> job, step |-> step - 1]

\* A log record.  coord is the f"Job{counter}.Step{step_number+1}" string.
Coord(job, step) == [job |-> job, step |-> step]
NoCoord == Coord(0, 0)
Entry(category, rule, coord, matched, variable) ==
    [category |-> category, rule |-> rule, coord |-> coord,
     matched |-> matched, variable |-> variable]

\* The key a scalar step environment is stored under, f"{step_number}{step}".
ScalarEnviron(step_environ) == EnvMap([k \in {"{step_number}{step}"} |-> step_environ])

risky_trigger_analysis(cfg, identified_triggers) ==
    IF identified_triggers.t # "seq"
    THEN [raised |-> "TypeError", return_triggers |-> <<>>]
    ELSE LET Risky(trigger) == risky_trigger(cfg, trigger)
         IN [raised |-> "none",
             return_triggers |-> SelectSeq(identified_triggers.items, Risky)]

\* Locals that outlive the call, as attributes of the auditor would.
LeakedLocals ==
    [environs |-> environs, all_actions |-> all_actions, commands |-> commands,
     counter |-> counter]

\* The locals content_analyzer starts from.
LocalsAtEntry ==
    [environs |-> EmptyDict, all_actions |-> <<>>, commands |-> <<>>,
     counter |-> 1]

\* The inner loop over the steps of one job; step_number is enumerate's index.
RECURSIVE CollectSteps(_, _, _, _)
CollectSteps(steps, step_number, job_counter, acc) ==
    IF step_number >= Len(steps) \/ acc.raised # "none" THEN acc
    ELSE LET step == steps[step_number + 1]
         IN IF ~IsMapping(step)
            THEN [acc EXCEPT !.raised = "AttributeError"]
            ELSE LET r == analyze_step(step)
                     item == [coord |-> Coord(job_counter, step_number + 1),
                              step |-> step]
                     step_environ ==
                         IF r.step_environ.t = "str"
                         THEN ScalarEnviron(r.step_environ)
                         ELSE r.step_environ
                 IN IF Truthy(r.step_environ) /\ step_environ.t # "env"
                    THEN [acc EXCEPT
                            !.all_actions =
                                IF Truthy(r.actions) THEN Append(@, item) ELSE @,
                            !.raised = "ValueError"]
                    ELSE CollectSteps(steps, step_number + 1, job_counter,
                           [acc EXCEPT
                              !.all_actions =
                                  IF Truthy(r.actions) THEN Append(@, item) ELSE @,
                              !.environs =
                                  IF Truthy(r.step_environ)
                                  THEN Update(@, step_environ.m) ELSE @,
                              !.commands =
                                  IF Truthy(r.run_command) THEN Append(@, item) ELSE @])

\* The steps a job is analysed as.
StepsOf(job) ==
    IF ~Truthy(job.steps) THEN <<job>>
    ELSE IF job.steps.t = "seq" THEN job.steps.items
    ELSE <<job.steps>>

\* The loop over the jobs.
RECURSIVE CollectJobs(_, _, _)
CollectJobs(all_jobs, i, acc) ==
    IF i > Len(all_jobs) \/ acc.raised # "none" THEN acc
    ELSE LET job == all_jobs[i]
         IN IF ~IsMapping(job)
            THEN [acc EXCEPT !.raised = "AttributeError"]
            ELSE LET steps == StepsOf(job)
                     merged ==
                         CASE job.env.t = "env" ->
                                [acc EXCEPT !.environs = Update(@, job.env.m)]
                           [] job.env.t = "null" -> acc
                           [] OTHER ->
                                [acc EXCEPT !.log = Append(@,
                                    Entry("EnvironMalformed", "", NoCoord, <<>>, ""))]
                     done == CollectSteps(steps, 0, acc.counter, merged)
                 IN CollectJobs(all_jobs, i + 1,
                                IF done.raised # "none" THEN done
                                ELSE [done EXCEPT !.counter = @ + 1])

\* environs.get(environ_variable, None)
EnvironGet(env, environ_variable) ==
    IF environ_variable \in DOMAIN env THEN env[environ_variable] ELSE Null

\* The loop over the matches of environ_regex in one command.
RECURSIVE EnvironMatches(_, _, _, _, _, _)
EnvironMatches(cfg, env, regex, step_number, matched_strings, acc) ==
    IF matched_strings = <<>> \/ acc.raised # "none" THEN acc
    ELSE LET tok == Head(matched_strings)
         IN IF Len(tok.segs) < 2
            THEN [acc EXCEPT !.raised = "IndexError"]
            ELSE LET environ_variable == tok.segs[2]
                     environ_var_value == EnvironGet(env, environ_variable)
                     risky_env == risky_command(cfg, environ_var_value)
                 IN IF ~Truthy(environ_var_value)
                    THEN EnvironMatches(cfg, env, regex, step_number,
                                        Tail(matched_strings), acc)
                    ELSE IF risky_env.raised # "none"
                    THEN [acc EXCEPT !.raised = risky_env.raised]
                    ELSE EnvironMatches(cfg, env, regex, step_number,
                           Tail(matched_strings),
                           IF /\ risky_env.found # <<>>
                              /\ risky_env.found[1].regex # "environ_regex"
                           THEN [acc EXCEPT !.log = Append(@,
                                   Entry("EnvIndirectRCE", regex, step_number,
                                         environ_var_value.v, environ_variable))]
                           ELSE acc)

\* The loop over the rules one command matched.
RECURSIVE MatchedRules(_, _, _, _, _)
MatchedRules(cfg, env, step_number, risky, acc) ==
    IF risky = <<>> \/ acc.raised # "none" THEN acc
    ELSE LET regex == Head(risky).regex
             matched_strings == Head(risky).matched
         IN MatchedRules(cfg, env, step_number, Tail(risky),
              IF regex = "environ_regex"
              THEN EnvironMatches(cfg, env, regex, step_number, matched_strings, acc)
              ELSE [acc EXCEPT !.log = Append(@,
                      Entry("UnsafeCommand", regex, step_number, matched_strings, ""))])

\* The loop over the collected commands.
RECURSIVE AnalyzeCommands(_, _, _, _)
AnalyzeCommands(cfg, env, cmds, acc) ==
    IF cmds = <<>> \/ acc.raised # "none" THEN acc
    ELSE LET step_number == Head(cmds).coord
             step_dict == Head(cmds).step
             risky == risky_command(cfg, step_dict.run)
         IN AnalyzeCommands(cfg, env, Tail(cmds),
              IF risky.raised # "none"
              THEN [acc EXCEPT !.raised = risky.raised]
              ELSE MatchedRules(cfg, env, step_number, risky.found, acc))

\* "actions/checkout" in action_name
IsCheckout(action_name) ==
    /\ action_name.t = "str"
    /\ \E i \in 1..Len(action_name.v) : action_name.v[i] = Word("actions/checkout")

\* The checks on one checkout step.
CheckoutFinding(cfg, risky_triggers, step_number, step_dict, acc) ==
    IF ~Truthy(step_dict.with) THEN acc
    ELSE IF ~IsMapping(step_dict.with)
    THEN [acc EXCEPT !.raised = "AttributeError"]
    ELSE IF ~Truthy(step_dict.with.ref) THEN acc
    ELSE LET risky_commits == risky_commit(cfg, step_dict.with.ref)
         IN IF risky_commits.raised # "none"
            THEN [acc EXCEPT !.raised = risky_commits.raised]
            ELSE IF /\ risky_commits.found # <<>>
                    /\ \E i \in 1..Len(risky_triggers) :
                          risky_triggers[i] = Name("pull_request_target")
            THEN [acc EXCEPT !.log = Append(@,
                    Entry("MaliciousCommitCheckout", "", step_number, <<>>, ""))]
            ELSE acc

\* The loop over the collected actions.
RECURSIVE AnalyzeActions(_, _, _, _)
AnalyzeActions(cfg, risky_triggers, actions, acc) ==
    IF actions = <<>> \/ acc.raised # "none" THEN acc
    ELSE LET step_number == Head(actions).coord
             step_dict == Head(actions).step
             action_name == step_dict.uses
             wrote == [acc EXCEPT !.written = Append(@, action_name)]
         IN AnalyzeActions(cfg, risky_triggers, Tail(actions),
              IF IsCheckout(action_name)
              THEN CheckoutFinding(cfg, risky_triggers, step_number, step_dict, wrote)
              ELSE wrote)

\* The try block: triggers, then commands, then actions; an exception is
\* logged and ends the block.
TryAnalysis(cfg, event_triggers, collected) ==
    LET start == [log |-> collected.log, written |-> <<>>, raised |-> "none"]
        triggers == risky_trigger_analysis(cfg, event_triggers)
        after_commands ==
            AnalyzeCommands(cfg, collected.environs, collected.commands, start)
        after_actions ==
            AnalyzeActions(cfg, triggers.return_triggers, collected.all_actions,
                           after_commands)
        ended ==
            IF triggers.raised # "none"
            THEN [start EXCEPT !.raised = triggers.raised]
            ELSE after_actions
    IN [log |-> IF ended.raised # "none"
                THEN Append(ended.log,
                            Entry("WorkflowError", ended.raised, NoCoord, <<>>, ""))
                ELSE ended.log,
        written |-> ended.written]

\* A local that was never assigned.
Unset == [t |-> "unset"]

\* content_analyzer from the given locals.  raised names the exception that
\* leaves the call, "none" when it returns.
content_analyzer(cfg, content, locals) ==
    LET parsed_content == WorkflowParser(content)
        untouched == [log |-> <<>>, written |-> <<>>, raised |-> "none",
                      event_triggers |-> Unset,
                      environs |-> locals.environs, commands |-> locals.commands,
                      all_actions |-> locals.all_actions, counter |-> locals.counter]
    IN IF ~Truthy(parsed_content) THEN untouched
       ELSE IF parsed_content.t \in {"str", "seq"}
       THEN [untouched EXCEPT !.raised = "AttributeError"]
       ELSE IF parsed_content.t = "failed" THEN untouched
       ELSE LET event_triggers == get_event_triggers(parsed_content)
                secrets == get_secrets(content.text)
                all_jobs == get_jobs(parsed_content)
                found == IF secrets # <<>>
                         THEN <<Entry("SecretUsage", "", NoCoord, secrets, "")>>
                         ELSE <<>>
                collected ==
                    CollectJobs(IF all_jobs.t = "jobs" THEN all_jobs.items
                                ELSE <<all_jobs>>, 1,
                        [environs |-> locals.environs,
                         all_actions |-> locals.all_actions,
                         commands |-> locals.commands,
                         counter |-> locals.counter,
                         log |-> found, raised |-> "none"])
                analysed == TryAnalysis(cfg, event_triggers, collected)
            IN IF ~Truthy(all_jobs)
               THEN [untouched EXCEPT !.log = found,
                                      !.event_triggers = event_triggers]
               ELSE IF collected.raised # "none"
               THEN [log |-> collected.log, written |-> <<>>,
                     raised |-> collected.raised,
                     event_triggers |-> event_triggers,
                     environs |-> collected.environs,
                     commands |-> collected.commands,
                     all_actions |-> collected.all_actions,
                     counter |-> collected.counter]
               ELSE [log |-> analysed.log, written |-> analysed.written,
                     raised |-> "none",
                     event_triggers |-> event_triggers,
                     environs |-> collected.environs,
                     commands |-> collected.commands,
                     all_actions |-> collected.all_actions,
                     counter |-> collected.counter]

----------------------------------------------------------------------------
\* GHWrapper.repo_node_parser.  A repository node holds the tree of the
\* workflow directory (object; null when there is none); an entry of the
\* tree has a name, kept as its dot-separated pieces, and the blob of the
\* file (object; null when the answer has none), whose text is a workflow
\* text or null.  A workflow is kept as its content; its name is only logged.

Tree(entries) == [t |-> "tree", entries |-> entries]
TreeEntry(name, object) == [name |-> name, object |-> object]
Blob(text) == [t |-> "blob", text |-> text]

\* The content None.
NoneContent == [yaml |-> [t |-> "none"], text |-> <<>>]

\* workflow_text before its first assignment.
Unbound == [yaml |-> [t |-> "unbound"], text |-> <<>>]

\* The loop over the entries; workflow_text is the local of that name.
RECURSIVE ParseEntries(_, _, _, _)
ParseEntries(workflows, i, workflow_text, workflows_found) ==
    IF i > Len(workflows)
    THEN [raised |-> "none", repo_workflows |-> workflows_found]
    ELSE LET workflow == workflows[i]
             workflow_name == workflow.name
             text == IF Truthy(workflow.object) THEN workflow.object.text
                     ELSE workflow_text
             workflow_ext == workflow_name[Len(workflow_name)]
         IN IF workflow_ext = "yml" \/ workflow_ext = "yaml"
            THEN IF text = Unbound
                 THEN [raised |-> "UnboundLocalError",
                       repo_workflows |-> workflows_found]
                 ELSE ParseEntries(workflows, i + 1, text,
                                   Append(workflows_found, text))
            ELSE ParseEntries(workflows, i + 1, text, workflows_found)

repo_node_parser(node) ==
    LET workflow_object == node.object
    IN IF Truthy(workflow_object)
       THEN ParseEntries(workflow_object.entries, 1, Unbound, <<>>)
       ELSE [raised |-> "none", repo_workflows |-> <<>>]

\* run: the repository node is parsed before its workflows are analysed; an
\* exception that leaves repo_node_parser ends the run.
RepoNodeParser ==
    /\ pc = "repo_node_parser"
    /\ LET r == repo_node_parser(repo_node)
       IN /\ repo_workflows' = r.repo_workflows
          /\ pc' = IF r.raised # "none" THEN "failed" ELSE "repo_analysis"
    /\ UNCHANGED <<repo_node, scan_config, position, aborted, scanned,
                   action_file, environs, commands, all_actions, counter>>

----------------------------------------------------------------------------
\* repo_analysis: one iteration of its loop, the call of content_analyzer
\* included.  An exception that leaves content_analyzer leaves repo_analysis.
RepoAnalysis ==
    /\ pc = "repo_analysis"
    /\ ~aborted
    /\ position < Len(repo_workflows)
    /\ LET workflow_content == repo_workflows[position + 1]
           r == content_analyzer(scan_config, workflow_content, LocalsAtEntry)
       IN /\ scanned' = Append(scanned,
                [log |-> r.log, written |-> r.written, raised |-> r.raised,
                 event_triggers |-> r.event_triggers])
          /\ action_file' = action_file \o r.written
          /\ aborted' = (r.raised # "none")
          /\ position' = IF r.raised # "none" THEN position ELSE position + 1
          /\ environs' = r.environs
          /\ commands' = r.commands
          /\ all_actions' = r.all_actions
          /\ counter' = r.counter
    /\ UNCHANGED <<repo_node, pc, scan_config, repo_workflows>>

Next == RepoNodeParser \/ RepoAnalysis

----------------------------------------------------------------------------
\* The workflows scanned.  A workflow text is its YAML document (yaml; t is
\* "invalid" when the text is not YAML) and the expression tokens of the raw
\* text the secret pattern runs over (text).

Text(yaml, text) == [yaml |-> yaml, text |-> text]

Title == Str(<<TitleExpr>>)
Checkout == Str(<<Word("actions/checkout"), Word("@v3")>>)
OtherAction == Str(<<Word("owner/action"), Word("@v1")>>)

\* The values the environment variable TITLE is given.
EnvValues == {Title, Str(<<EnvOther, TitleExpr>>), Str(<<EnvOther>>)}

Step(uses, run, with, env) == Mapping(uses, run, with, env, Null)

StepPool(value) ==
    {Step(Null, Str(<<Word("echo"), TitleExpr>>), Null, Null),
     Step(Null, Str(<<Word("echo"), EnvTitle>>), Null, Null),
     Step(Null, Str(<<EnvNoDot, TitleExpr>>), Null, Null),
     Step(Null, Number, Null, Null),
     Step(Checkout, Null, WithMap(Str(<<HeadSha>>)), Null),
     Step(Checkout, Null, WithMap(Str(<<Word("main")>>)), Null),
     Step(OtherAction, Null, WithMap(Str(<<HeadSha>>)), Null),
     Step(Null, Null, Null, EnvMap([k \in {"TITLE"} |-> value])),
     Name("build")}

\* The sequences over S of length 1..n.
SeqsUpTo(S, n) == UNION {[1..k -> S] : k \in 1..n}

\* A job with a steps field, and a job that is its own only step.
JobsOf(steps) ==
    {Mapping(Null, Null, Null, Null, List(steps))}
        \cup (IF Len(steps) = 1 THEN {steps[1]} ELSE {})

\* The job lists with at most MaxJobs jobs and MaxSteps steps in all.
RECURSIVE JobLists(_, _, _)
JobLists(pool, jobs, steps) ==
    {<<>>} \cup
    (IF jobs = 0 \/ steps = 0 THEN {}
     ELSE UNION {UNION {{<<j>> \o rest : rest \in JobLists(pool, jobs - 1, steps - Len(first))} :
                          j \in JobsOf(first)} :
                   first \in SeqsUpTo(pool, steps)})

TriggerFields ==
    {Null, List(<<>>), List(<<Name("push")>>),
     List(<<Name("push"), Name("pull_request_target")>>),
     TriggerMap(<<Name("pull_request_target")>>), Name("push")}

RawTexts == {<<>>, <<SecretToken, SecretKey, SecretToken>>}

Workflows(jobs_bound, steps_bound) ==
    {Text([t |-> "invalid"], <<SecretToken>>), Text(Null, <<>>),
     Text(Name("hello"), <<>>), Text(List(<<Name("a")>>), <<>>),
     Text(List(<<>>), <<>>)}
    \cup UNION {{Text(Document(on, IF jobs = <<>> THEN Null ELSE JobsMap(jobs)), text) :
                    on \in TriggerFields, text \in RawTexts,
                    jobs \in JobLists(StepPool(value), jobs_bound, steps_bound)} :
                 value \in EnvValues}

\* The repositories: one workflow each.
Repos(jobs_bound, steps_bound) == {<<w>> : w \in Workflows(jobs_bound, steps_bound)}

\* The repositories of several workflows: an unparsable text, and one job
\* of one step (a run command, the checkout of the head commit or a scalar)
\* with or without a job environment.
RunSteps ==
    {s \in StepPool(Title) :
        s.t = "step" => (s.run.t = "str" \/ (IsCheckout(s.uses) /\ s.with.ref = Str(<<HeadSha>>)))}

SeqWorkflows ==
    {Text([t |-> "invalid"], <<>>)}
    \cup {Text(Document(List(<<Name("pull_request_target")>>),
                       JobsMap(<<Mapping(Null, Null, Null, env, List(<<s>>))>>)),
               <<>>) :
            env \in {Null, EnvMap([k \in {"TITLE"} |-> Title])}, s \in RunSteps}

SeqRepos(workflows_bound) == SeqsUpTo(SeqWorkflows, workflows_bound)

\* The names of the workflow files of a repository.
WorkflowNames == <<"ci", "release", "lint", "deploy", "nightly">>

\* The node of a repository whose workflow directory holds the given texts,
\* each in a .yml file of its own.
NodeOf(texts) ==
    [object |-> Tree([i \in 1..Len(texts) |->
                        TreeEntry(<<WorkflowNames[i], "yml">>, Blob(texts[i]))])]

InitWith(repos) ==
    /\ scan_config \in ScanConfigs
    /\ repo_node \in {NodeOf(texts) : texts \in repos}
    /\ pc = "repo_node_parser"
    /\ repo_workflows = <<>>
    /\ position = 0
    /\ aborted = FALSE
    /\ scanned = <<>>
    /\ action_file = <<>>
    /\ environs = EmptyDict
    /\ commands = <<>>
    /\ all_actions = <<>>
    /\ counter = 1

Init == InitWith(Repos(MaxJobs, MaxSteps))

Spec == Init /\ [][Next]_vars

InitSeq == InitWith(SeqRepos(MaxWorkflows))

SpecSeq == InitSeq /\ [][Next]_vars

\* The repositories of one workflow whose jobs have steps of their own: at
\* most jobs_bound jobs of at most steps_bound steps each, a step being a
\* run command or an action reference, a job having a steps field or being
\* its own only step.
CoordSteps ==
    {Step(Null, Str(<<Word("echo"), TitleExpr>>), Null, Null),
     Step(Checkout, Null, WithMap(Str(<<HeadSha>>)), Null)}

CoordJobs(steps_bound) ==
    UNION {JobsOf(steps) : steps \in SeqsUpTo(CoordSteps, steps_bound)}

CoordRepos(jobs_bound, steps_bound) ==
    {<<Text(Document(List(<<Name("pull_request_target")>>), JobsMap(jobs)), <<>>)>> :
        jobs \in SeqsUpTo(CoordJobs(steps_bound), jobs_bound)}

InitCoord == InitWith(CoordRepos(MaxJobs, MaxSteps))

SpecCoord == InitCoord /\ [][Next]_vars

\* The nodes of the repositories whose workflow directory is missing, empty
\* or holds at most entries_bound entries: workflow files and other files,
\* with a blob of either of two texts, with a blob without text or without
\* a blob.
NodeTexts ==
    {Text(Document(List(<<Name("pull_request_target")>>),
                   JobsMap(<<Mapping(Null, Null, Null, Null, List(<<s>>))>>)),
          <<>>) : s \in CoordSteps}

TreeEntries ==
    {TreeEntry(name, object) :
        name \in {<<"ci", "yml">>, <<"build", "yaml">>, <<"README", "md">>},
        object \in {Null, Blob(NoneContent)} \cup {Blob(text) : text \in NodeTexts}}

Nodes(entries_bound) ==
    {[object |-> Null], [object |-> Tree(<<>>)]}
        \cup {[object |-> Tree(entries)] : entries \in SeqsUpTo(TreeEntries, entries_bound)}

InitNode ==
    /\ scan_config \in ScanConfigs
    /\ repo_node \in Nodes(MaxWorkflows)
    /\ pc = "repo_node_parser"
    /\ repo_workflows = <<>>
    /\ position = 0
    /\ aborted = FALSE
    /\ scanned = <<>>
    /\ action_file = <<>>
    /\ environs = EmptyDict
    /\ commands = <<>>
    /\ all_actions = <<>>
    /\ counter = 1

SpecNode == InitNode /\ [][Next]_vars

----------------------------------------------------------------------------
\* What the properties below read off a workflow and off a finished call.

Calls == 1..Len(scanned)

JobsIn(w) ==
    IF w.yaml.t = "doc" /\ w.yaml.jobs.t = "jobs" THEN w.yaml.jobs.items ELSE <<>>

\* Every job and every step of the workflow is a mapping.
AllMappings(w) ==
    \A j \in 1..Len(JobsIn(w)) :
        /\ IsMapping(JobsIn(w)[j])
        /\ \A n \in 1..Len(StepsOf(JobsIn(w)[j])) :
              IsMapping(StepsOf(JobsIn(w)[j])[n])

\* The coordinates of the steps of a workflow whose jobs and steps are mappings.
Coordinates(w) ==
    {Coord(j, n) : j \in 1..Len(JobsIn(w)), n \in 1..MaxSteps + 1}
        \cap {c \in [job : 1..Len(JobsIn(w)), step : 1..MaxSteps + 1] :
                c.step <= Len(StepsOf(JobsIn(w)[c.job]))}

StepAt(w, c) == StepsOf(JobsIn(w)[c.job])[c.step]

Contains(text, tok) == \E i \in 1..Len(text) : text[i] = tok

\* The number of records of the log that satisfy P.
Count(entries, P(_)) == Cardinality({i \in 1..Len(entries) : P(entries[i])})

\* A run command holds an environment reference without a variable segment.
HasNoDotReference(w) ==
    \E c \in Coordinates(w) :
        /\ StepAt(w, c).run.t = "str"
        /\ Contains(StepAt(w, c).run.v, EnvNoDot)

\* A run command is not a string.
HasNumberCommand(w) ==
    \E c \in Coordinates(w) : StepAt(w, c).run.t = "int"

\* The trigger field is present and not empty.
HasTriggers(w) == w.yaml.t = "doc" /\ Truthy(w.yaml.on)

HasJobs(w) == w.yaml.t = "doc" /\ Truthy(w.yaml.jobs)

\* The names in the trigger field, whatever its shape.
TriggerNames(on) ==
    CASE on.t = "seq" -> on.items
      [] on.t = "triggers" -> on.keys
      [] on.t = "str" -> <<on>>
      [] OTHER -> <<>>

\* The unsafe-input rules other than the environment rule.
DirectRules == {scan_config.unsafe_inputs[i] : i \in 1..Len(scan_config.unsafe_inputs)}
                   \ {"environ_regex"}

RuleMatches(regex, value) ==
    /\ value.t = "str"
    /\ \E i \in 1..Len(value.v) : UnsafeInputPattern(regex, value.v[i])

\* The steps of a workflow in document order.
RECURSIVE Flatten(_)
Flatten(jobs) ==
    IF jobs = <<>> THEN <<>> ELSE StepsOf(Head(jobs)) \o Flatten(Tail(jobs))

ExpectedReferences(w) ==
    LET HasReference(step) == Truthy(step.uses)
        steps == SelectSeq(Flatten(JobsIn(w)), HasReference)
    IN [i \in 1..Len(steps) |-> steps[i].uses]

----------------------------------------------------------------------------
\* C1: a text that is not YAML, or whose top level is not a mapping, is
\* parsed to the defunct marker, and content_analyzer on it returns without
\* an exception and without a finding.
C1_DefunctNeverRaises ==
    \A k \in Calls :
        repo_workflows[k].yaml.t \in {"invalid", "str", "seq"} =>
            /\ WorkflowParser(repo_workflows[k]) = FailedMarker
            /\ scanned[k].raised = "none"
            /\ scanned[k].log = <<>>

\* C6: a defunct workflow or one without jobs yields no finding of any
\* category and no line in the action-reference file.
C6_NoJobsNoFindings ==
    \A k \in Calls :
        (repo_workflows[k].yaml.t # "doc" \/ ~Truthy(repo_workflows[k].yaml.jobs)) =>
            /\ scanned[k].log = <<>>
            /\ scanned[k].written = <<>>

\* C9: get_event_triggers returns a sequence verbatim (an empty one too), the
\* keys of a mapping in order, a scalar as a one-element sequence, and the
\* absent value only when the trigger field is absent.
C9_TriggersByShape ==
    \A k \in Calls :
        scanned[k].event_triggers # Unset =>
            LET on == repo_workflows[k].yaml.on
                got == scanned[k].event_triggers
            IN /\ on.t = "seq" => got = on
               /\ on.t = "triggers" => got = List(on.keys)
               /\ on.t = "str" => got = List(<<on>>)
               /\ got = Null <=> on = Null

\* C2: in a workflow with jobs, whatever the trigger field, each step whose
\* run command matches a Direct rule yields exactly one UnsafeCommand finding
\* for that rule at the step's coordinate and no EnvIndirectRCE finding for
\* it.  Stated for workflows whose jobs and steps are mappings and whose run
\* commands are strings with well-formed environment references.
C2_DirectMatchOneFinding ==
    \A k \in Calls :
        LET w == repo_workflows[k]
        IN (HasJobs(w) /\ AllMappings(w) /\ ~HasNoDotReference(w)
                /\ ~HasNumberCommand(w)) =>
            \A c \in Coordinates(w) : \A regex \in DirectRules :
                LET Unsafe(e) == e.category = "UnsafeCommand" /\ e.rule = regex
                                     /\ e.coord = c
                    Indirect(e) == e.category = "EnvIndirectRCE" /\ e.rule = regex
                                       /\ e.coord = c
                IN RuleMatches(regex, StepAt(w, c).run) =>
                      /\ Count(scanned[k].log, Unsafe) = 1
                      /\ Count(scanned[k].log, Indirect) = 0

\* C3: for a match of environ_regex whose variable resolves in the
\* accumulated environment, an EnvIndirectRCE finding is logged exactly when
\* the resolved value matches a rule other than environ_regex, in every
\* order of the rules.  Stated for workflows with triggers whose jobs and
\* steps are mappings and whose run commands are strings with well-formed
\* environment references.
C3_IndirectIffOtherRule ==
    \A k \in Calls :
        LET w == repo_workflows[k]
        IN (k = Len(scanned) /\ HasJobs(w) /\ HasTriggers(w) /\ AllMappings(w)
                /\ ~HasNoDotReference(w) /\ ~HasNumberCommand(w)) =>
            \A c \in Coordinates(w) :
                LET run == StepAt(w, c).run
                IN run.t = "str" =>
                    \A i \in 1..Len(run.v) :
                        LET tok == run.v[i]
                            value == EnvironGet(environs, tok.segs[2])
                            Indirect(e) == e.category = "EnvIndirectRCE"
                                              /\ e.coord = c
                                              /\ e.variable = tok.segs[2]
                        IN (UnsafeInputPattern("environ_regex", tok)
                                /\ Truthy(value)) =>
                              (Count(scanned[k].log, Indirect) > 0
                                  <=> \E regex \in DirectRules : RuleMatches(regex, value))

\* C4: a MaliciousCommitCheckout finding is logged for a step exactly when
\* its action is the checkout action, its with.ref matches a malicious-commit
\* pattern and pull_request_target is a risky trigger of the workflow.
\* Stated for workflows whose jobs and steps are mappings.
C4_CheckoutIffAllThree ==
    \A k \in Calls :
        LET w == repo_workflows[k]
        IN (HasJobs(w) /\ AllMappings(w)) =>
            \A c \in Coordinates(w) :
                LET step == StepAt(w, c)
                    Finding(e) == e.category = "MaliciousCommitCheckout" /\ e.coord = c
                    names == TriggerNames(w.yaml.on)
                    ref == step.with.ref
                IN Truthy(step.uses) =>
                     (Count(scanned[k].log, Finding) > 0 <=>
                        /\ IsCheckout(step.uses)
                        /\ step.with.t = "with"
                        /\ ref.t = "str"
                        /\ \E i \in 1..Len(ref.v) :
                              MaliciousCommitPattern("malicious_commit_referenced", ref.v[i])
                        /\ \E i \in 1..Len(names) :
                              /\ names[i] = Name("pull_request_target")
                              /\ risky_trigger(scan_config, names[i]))

\* C5: after content_analyzer returns on a parsed workflow with jobs, the
\* action-reference file has received exactly one line for each step that
\* has an action reference, in document order, whatever the trigger field
\* and whatever the run commands.  Stated for workflows whose jobs and steps
\* are mappings.
C5_EveryReferenceWritten ==
    \A k \in Calls :
        LET w == repo_workflows[k]
        IN (HasJobs(w) /\ AllMappings(w)) =>
            scanned[k].written = ExpectedReferences(w)

\* C10: a job without a steps field is analysed as one step, the job body:
\* a job-level run is collected and scanned and a job-level uses is collected
\* and written to the action-reference file, both as Step1 of the job.
\* Stated for workflows whose jobs and steps are mappings and whose run
\* commands are strings with well-formed environment references.
C10_JobWithoutStepsIsOneStep ==
    \A k \in Calls :
        LET w == repo_workflows[k]
        IN (HasJobs(w) /\ AllMappings(w) /\ ~HasNoDotReference(w)
                /\ ~HasNumberCommand(w)) =>
            \A j \in 1..Len(JobsIn(w)) :
                LET job == JobsIn(w)[j]
                    item == [coord |-> Coord(j, 1), step |-> job]
                IN job.steps = Null =>
                     /\ (k = Len(scanned) /\ Truthy(job.run)) =>
                            \E i \in 1..Len(commands) : commands[i] = item
                     /\ (k = Len(scanned) /\ Truthy(job.uses)) =>
                            \E i \in 1..Len(all_actions) : all_actions[i] = item
                     /\ \A regex \in DirectRules :
                            LET Unsafe(e) == e.category = "UnsafeCommand"
                                                /\ e.rule = regex /\ e.coord = Coord(j, 1)
                            IN RuleMatches(regex, job.run) =>
                                  Count(scanned[k].log, Unsafe) = 1
                     /\ Truthy(job.uses) =>
                            \E i \in 1..Len(scanned[k].written) :
                                scanned[k].written[i] = job.uses

\* C7: an unexpected failure while one workflow is analysed (a job or a step
\* that is not a mapping) never prevents the remaining workflows of the
\* repository from being analysed: when the loop of repo_analysis has ended,
\* content_analyzer has been called on every workflow.
C7_FailureIsolated ==
    (aborted \/ position = Len(repo_workflows)) =>
        Len(scanned) = Len(repo_workflows)

\* The environment variables a workflow defines.
DefinedVariables(w) ==
    LET EnvOf(v) == IF v.t = "env" THEN DOMAIN v.m
                    ELSE IF v.t = "str" THEN DOMAIN ScalarEnviron(v).m
                    ELSE {}
        OfJob(job) ==
            IF ~IsMapping(job) THEN {}
            ELSE EnvOf(job.env) \cup
                 UNION {IF IsMapping(StepsOf(job)[n]) THEN EnvOf(StepsOf(job)[n].env)
                        ELSE {} : n \in 1..Len(StepsOf(job))}
    IN UNION {OfJob(JobsIn(w)[j]) : j \in 1..Len(JobsIn(w))}

\* The steps a workflow has at a coordinate.
CollectedFrom(w, item) ==
    /\ item.coord.job \in 1..Len(JobsIn(w))
    /\ IsMapping(JobsIn(w)[item.coord.job])
    /\ item.coord.step \in 1..Len(StepsOf(JobsIn(w)[item.coord.job]))
    /\ item.step = StepAt(w, item.coord)

\* What content_analyzer leaves and yields comes from the text it was given.
C8_OnlyThisText ==
    /\ \A i \in Calls : \A j \in Calls :
          repo_workflows[i] = repo_workflows[j] => scanned[i] = scanned[j]
    /\ Calls # {} =>
          LET w == repo_workflows[Len(scanned)]
          IN /\ DOMAIN environs \subseteq DefinedVariables(w)
             /\ \A i \in 1..Len(commands) : CollectedFrom(w, commands[i])
             /\ \A i \in 1..Len(all_actions) : CollectedFrom(w, all_actions[i])
             /\ counter \in 1..Len(JobsIn(w)) + 1
             /\ Len(scanned[Len(scanned)].written) <= Len(all_actions)

\* C8: over any sequence of calls, what a call logs and writes depends only
\* on the text of its workflow and on the scan configuration: the
\* environment, the collected commands and actions and the job counter start
\* afresh on every call, also after a defunct or failing workflow, and no
\* call changes the scan configuration.
C8_CallsAreIndependent ==
    []C8_OnlyThisText /\ [][scan_config' = scan_config]_vars

\* A text scanned a second time after a failing workflow that defined the
\* variable the text refers to.
C8_Witness ==
    /\ Len(scanned) = 3
    /\ repo_workflows[1] = repo_workflows[3]
    /\ \E c \in Coordinates(repo_workflows[1]) :
          /\ IsMapping(StepAt(repo_workflows[1], c))
          /\ StepAt(repo_workflows[1], c).run.t = "str"
          /\ Contains(StepAt(repo_workflows[1], c).run.v, EnvTitle)
    /\ DefinedVariables(repo_workflows[1]) = {}
    /\ "TITLE" \in DefinedVariables(repo_workflows[2])
    /\ \E i \in 1..Len(scanned[2].log) : scanned[2].log[i].category = "WorkflowError"
    /\ scanned[3].log = <<>>

\* The findings of a log: its records other than the error of the try block.
Findings(entries) ==
    LET IsFinding(e) == e.category # "WorkflowError"
    IN SelectSeq(entries, IsFinding)

\* A workflow without its environment references that have no variable
\* segment: the same jobs and steps, the run commands without those tokens.
WithoutMalformed(w) ==
    LET WellFormed(tok) == tok # EnvNoDot
        StripRun(step) ==
            IF step.run.t = "str"
            THEN [step EXCEPT !.run = Str(SelectSeq(step.run.v, WellFormed))]
            ELSE step
        StripJob(job) ==
            IF job.steps.t = "seq"
            THEN [job EXCEPT !.steps = List([n \in 1..Len(job.steps.items) |->
                                               StripRun(job.steps.items[n])])]
            ELSE StripRun(job)
    IN [w EXCEPT !.yaml.jobs.items = [j \in 1..Len(JobsIn(w)) |-> StripJob(@[j])]]

\* C11: a match of the environment rule without a second dot-separated
\* segment is skipped without a fault: the findings logged and the action
\* references written for the workflow are those of the same workflow
\* without the malformed reference.  Stated for workflows whose jobs and
\* steps are mappings.
C11_MalformedMatchSkipped ==
    \A k \in Calls :
        LET w == repo_workflows[k]
            r == content_analyzer(scan_config, WithoutMalformed(w), LocalsAtEntry)
        IN (HasJobs(w) /\ AllMappings(w) /\ HasNoDotReference(w)) =>
              /\ Findings(scanned[k].log) = Findings(r.log)
              /\ scanned[k].written = r.written

\* The environment variables one job defines: its env and the env of its
\* steps.
JobVariables(job) ==
    LET EnvOf(v) == IF v.t = "env" THEN DOMAIN v.m
                    ELSE IF v.t = "str" THEN DOMAIN ScalarEnviron(v).m
                    ELSE {}
    IN EnvOf(job.env) \cup
       UNION {EnvOf(StepsOf(job)[n].env) : n \in 1..Len(StepsOf(job))}

\* C12: an environment reference in a run command resolves only in the
\* environment of the job that holds the step: every EnvIndirectRCE finding
\* names a variable that the job of its coordinate defines.  Stated for
\* workflows whose jobs and steps are mappings.
C12_ResolvedInOwnJob ==
    \A k \in Calls :
        LET w == repo_workflows[k]
        IN (HasJobs(w) /\ AllMappings(w)) =>
            \A i \in 1..Len(scanned[k].log) :
                LET e == scanned[k].log[i]
                IN e.category = "EnvIndirectRCE" =>
                      e.variable \in JobVariables(JobsIn(w)[e.coord.job])

\* The collected items that carry the coordinate of job j, step s.
ItemsAt(items, j, s) ==
    {i \in 1..Len(items) : items[i].coord = [job |-> j, step |-> s]}

\* C13: every collected run-command step and action-reference step carries
\* the coordinate JobJ.StepS of its own place, J the position of its job in
\* the document and S its position among the steps the job is analysed as:
\* S starts at 1 in every job, each step with a run command (an action
\* reference) is collected once under its coordinate, and no coordinate is
\* given to two steps.
C13_CoordinatesByPosition ==
    Calls # {} =>
        LET w == repo_workflows[Len(scanned)]
        IN AllMappings(w) =>
            /\ \A i \in 1..Len(commands) : CollectedFrom(w, commands[i])
            /\ \A i \in 1..Len(all_actions) : CollectedFrom(w, all_actions[i])
            /\ \A j \in 1..Len(JobsIn(w)) :
                  \A s \in 1..Len(StepsOf(JobsIn(w)[j])) :
                      LET step == StepsOf(JobsIn(w)[j])[s]
                      IN /\ Cardinality(ItemsAt(commands, j, s)) =
                                 (IF Truthy(step.run) THEN 1 ELSE 0)
                         /\ Cardinality(ItemsAt(all_actions, j, s)) =
                                 (IF Truthy(step.uses) THEN 1 ELSE 0)

\* Two jobs: the second step of the first is a run command, and so is the
\* first step of the second, after an action reference in the first job.
C13_Witness ==
    /\ Len(scanned) = 1
    /\ Len(JobsIn(repo_workflows[1])) = 2
    /\ ItemsAt(all_actions, 1, 1) # {}
    /\ ItemsAt(commands, 1, 2) # {}
    /\ ItemsAt(commands, 2, 1) # {}

\* The content every workflow file of a node has: the text of its own blob,
\* none without a blob.
OwnTexts(node) ==
    LET entries == IF Truthy(node.object) THEN node.object.entries ELSE <<>>
        IsWorkflow(e) == e.name[Len(e.name)] \in {"yml", "yaml"}
        files == SelectSeq(entries, IsWorkflow)
    IN [i \in 1..Len(files) |->
          IF Truthy(files[i].object) THEN files[i].object.text ELSE NoneContent]

\* C14: repo_node_parser does not fail, and each workflow it returns has the
\* text of its own entry as content: the text of the entry's blob, none when
\* the entry has no blob, never the text of an earlier entry.
C14_OwnTextOfEveryEntry ==
    /\ pc # "failed"
    /\ pc = "repo_analysis" => repo_workflows = OwnTexts(repo_node)

====
